---------------------------- MODULE Spec2Model ----------------------------
(***************************************************************************)
(* A model of the GCM / ice-sheet coupling library: the CouplingContract   *)
(* field registry, the VarTransformer recipes of                           *)
(* IceModel_PISM::setup_contracts_modele, and the area-weighted regridding *)
(* matrices of MatrixMaker.                                                *)
(*                                                                         *)
(* Real numbers are modelled exactly: transformer coefficients as integer  *)
(* multiples of 1/Scale, regridding weights as reduced fractions.          *)
(***************************************************************************)
EXTENDS Integers, Sequences, FiniteSets, TLC

(***************************************************************************)
(* Part 1.  CouplingContract                                               *)
(***************************************************************************)

VARIABLES
    _ix_to_field,   \* std::vector<CoupledField>
    _name_to_ix,    \* std::map<std::string,int>
    _size_nounit,   \* long
    _unit_ix,       \* int
    exited,         \* giss::exit(1) has been called: the process is gone
    lastop,         \* the call made last: [op, name, strict, ix]
    ret,            \* what that call returned (an int or a name)
    issued,         \* name -> the index add_field returned for it
    order           \* the names in the order their add_field succeeded

cvars == <<_ix_to_field, _name_to_ix, _size_nounit, _unit_ix>>
c1vars == <<_ix_to_field, _name_to_ix, _size_nounit, _unit_ix,
           exited, lastop, ret, issued, order>>

\* State of Part 2: one run of IceModel_PISM::setup_contracts_modele and the
\* evaluations of the transformers it builds.
VARIABLES
    coupling_type,        \* params->coupling_type
    gcm_outputs,          \* coupler->gcm_outputs
    gcm_inputs,           \* coupler->gcm_inputs
    scalar_value,         \* the value the coupler's one named scalar resolves to
    contract,             \* contract[INPUT], contract[OUTPUT]
    var_transformer,      \* var_transformer[INPUT], var_transformer[OUTPUT]
    enth_modele_to_pism,  \* E_l of the enthalpy interval, once computed
    ok,                   \* bool ok
    pc,                   \* the statement of setup_contracts_modele to run next
    outcome,              \* "running", "returned", "thrown" or "exited"
    calls,                \* the set() calls made so far, with what each returned
    eval                  \* the last evaluation: [io, in, out]

tvars == <<coupling_type, gcm_outputs, gcm_inputs, scalar_value, contract,
           var_transformer, enth_modele_to_pism, ok, pc, outcome, calls, eval>>

\* State of Part 3: a MatrixMaker, its ice sheets and the regridding results.
VARIABLES
    sheets,             \* giss::MapEx<std::string, IceSheet>: name -> sheet
    sheets_by_id,       \* std::map<int, IceSheet *>: index -> name of the sheet
    _next_sheet_index,  \* int
    fgice1,             \* CooVector<int,double> filled by compute_fhc
    fhc1h,              \* CooVector<std::pair<int,int>,double> filled by compute_fhc
    hp2hc,              \* the matrix hp_to_hc returned last
    mm_done,            \* which MatrixMaker calls have been made
    realized,           \* the realize() call: the arrays it found and how it ended
    arrays,             \* the members mask1, hpdefs and hcmax
    nc                  \* the NcFile the MatrixMaker is written to and read from

mvars == <<sheets, sheets_by_id, _next_sheet_index, fgice1, fhc1h, hp2hc, mm_done,
           realized, arrays, nc>>

\* State of Part 4: a run of the make_merged_topoo batch tool.
VARIABLES topoo

\* State of Part 5: the IceCoupler of every ice sheet.
VARIABLES coupler

\* State of Part 6: a ModelEDomain and the cell last looked up in it.
VARIABLES domain, lookup

ovars == <<topoo, coupler, domain, lookup>>

vars == <<c1vars, tvars, mvars, ovars>>

\* Number of add_field calls a run makes.
MaxFields == 3

\* Grid flags of contracts.hpp.
ATMOSPHERE == 1
ICE == 2
ELEVATION == 3
INITIAL == 4

FieldNames == {"surface_downward_mass_flux", "surface_temperature", "unit"}
FieldFlags == {ICE, ELEVATION}

\* What a call returned: an int, a name, or nothing (the call did not return).
RetInt(i) == [kind |-> "int", i |-> i, s |-> ""]
RetName(s) == [kind |-> "name", i |-> 0, s |-> s]
RetNone == [kind |-> "none", i |-> 0, s |-> ""]

\* CoupledField::CoupledField: the members that tell two fields apart.
CoupledField(name, default_value, units, flags) ==
    [name |-> name, default_value |-> default_value, units |-> units, flags |-> flags]

\* The contract as one value.
Contract(f, m, s, u) ==
    [_ix_to_field |-> f, _name_to_ix |-> m, _size_nounit |-> s, _unit_ix |-> u]

\* CouplingContract::CouplingContract()
EmptyContract == Contract(<<>>, <<>>, 0, 1)

ThisContract == Contract(_ix_to_field, _name_to_ix, _size_nounit, _unit_ix)

\* size_withunit(), size_nounit(), unit_ix()
size_withunit(c) == Len(c._ix_to_field)
size_nounit(c) == c._size_nounit
unit_ix(c) == c._unit_ix

\* add_field(CoupledField &&): a duplicate name is fatal; otherwise the field
\* takes the next index, in insertion order.
add_field_nodupcheck(c, cf) ==
    LET ix == Len(c._ix_to_field) IN
    [exit |-> FALSE, ret |-> ix,
     c |-> Contract(Append(c._ix_to_field, cf),
                    [n \in (DOMAIN c._name_to_ix) \cup {cf.name} |->
                        IF n = cf.name THEN ix ELSE c._name_to_ix[n]],
                    IF cf.name = "unit" THEN c._size_nounit ELSE c._size_nounit + 1,
                    IF cf.name = "unit" THEN ix ELSE c._unit_ix)]

add_field(c, cf) ==
    IF cf.name \in DOMAIN c._name_to_ix
    THEN [exit |-> TRUE, ret |-> 0, c |-> c]
    ELSE LET ix == Len(c._ix_to_field) IN
         [exit |-> FALSE, ret |-> ix,
          c |-> Contract(Append(c._ix_to_field, cf),
                         [n \in (DOMAIN c._name_to_ix) \cup {cf.name} |->
                             IF n = cf.name THEN ix ELSE c._name_to_ix[n]],
                         IF cf.name = "unit" THEN c._size_nounit ELSE c._size_nounit + 1,
                         IF cf.name = "unit" THEN ix ELSE c._unit_ix)]

\* The number of nested calls the stack holds.
MaxCallDepth == 4

\* add_field(CoupledField const &cf) { CoupledField dup(cf);
\*                                     return add_field(std::move(cf)); }
\* cf is const, so std::move(cf) is a const rvalue: it cannot bind to
\* CoupledField &&, and the call resolves to this overload again, until the
\* stack is exhausted.
RECURSIVE add_field_constref(_, _, _)
add_field_constref(c, cf, depth) ==
    IF depth >= MaxCallDepth
    THEN [exit |-> TRUE, ret |-> 0, c |-> c]
    ELSE add_field_constref(c, cf, depth + 1)

\* add_field(name, default_value, units, flags, description)
add_field_named(c, name, default_value, units, flags) ==
    add_field(c, CoupledField(name, default_value, units, flags))

\* index(name, throw_exception)
index_missreturnszero(c, name, throw_exception) ==
    IF name \notin DOMAIN c._name_to_ix
    THEN [exit |-> FALSE, ret |-> 0]
    ELSE [exit |-> FALSE, ret |-> c._name_to_ix[name]]

index(c, name, throw_exception) ==
    IF name \notin DOMAIN c._name_to_ix
    THEN IF throw_exception
         THEN [exit |-> TRUE, ret |-> 0]
         ELSE [exit |-> FALSE, ret |-> -1]
    ELSE [exit |-> FALSE, ret |-> c._name_to_ix[name]]

\* name(ix), for an index the vector holds
name_offbyone(c, ix) == c._ix_to_field[IF ix + 2 <= Len(c._ix_to_field) THEN ix + 2 ELSE 1].name

name(c, ix) == c._ix_to_field[ix + 1].name

Op(op, n, strict, ix) == [op |-> op, name |-> n, strict |-> strict, ix |-> ix]

ContractInit ==
    /\ _ix_to_field = EmptyContract._ix_to_field
    /\ _name_to_ix = EmptyContract._name_to_ix
    /\ _size_nounit = EmptyContract._size_nounit
    /\ _unit_ix = EmptyContract._unit_ix
    /\ exited = FALSE
    /\ lastop = Op("new", "", FALSE, 0)
    /\ ret = RetNone
    /\ issued = <<>>
    /\ order = <<>>

\* A caller registers a field by name.
AddField ==
    /\ ~exited
    /\ Len(order) < MaxFields
    /\ \E n \in FieldNames, fl \in FieldFlags :
         LET r == add_field_named(ThisContract, n, 0, "1", fl) IN
         /\ _ix_to_field' = r.c._ix_to_field
         /\ _name_to_ix' = r.c._name_to_ix
         /\ _size_nounit' = r.c._size_nounit
         /\ _unit_ix' = r.c._unit_ix
         /\ exited' = r.exit
         /\ ret' = IF r.exit THEN RetNone ELSE RetInt(r.ret)
         /\ lastop' = Op("add_field", n, FALSE, 0)
         /\ issued' = IF r.exit THEN issued
                      ELSE [k \in (DOMAIN issued) \cup {n} |->
                               IF k = n THEN r.ret ELSE issued[k]]
         /\ order' = IF r.exit THEN order ELSE Append(order, n)
    /\ UNCHANGED <<tvars, mvars, ovars>>

\* A caller adds a field it holds by const reference.
AddFieldConstRef ==
    /\ ~exited
    /\ Len(order) < MaxFields
    /\ \E n \in FieldNames, fl \in FieldFlags :
         LET r == add_field_constref(ThisContract, CoupledField(n, 0, "1", fl), 0) IN
         /\ _ix_to_field' = r.c._ix_to_field
         /\ _name_to_ix' = r.c._name_to_ix
         /\ _size_nounit' = r.c._size_nounit
         /\ _unit_ix' = r.c._unit_ix
         /\ exited' = r.exit
         /\ ret' = IF r.exit THEN RetNone ELSE RetInt(r.ret)
         /\ lastop' = Op("add_field_constref", n, FALSE, 0)
         /\ issued' = IF r.exit THEN issued
                      ELSE [k \in (DOMAIN issued) \cup {n} |->
                               IF k = n THEN r.ret ELSE issued[k]]
         /\ order' = IF r.exit THEN order ELSE Append(order, n)
    /\ UNCHANGED <<tvars, mvars, ovars>>

\* A caller looks a name up, strictly or not.
Index ==
    /\ ~exited
    /\ \E n \in FieldNames, strict \in BOOLEAN :
         LET r == index(ThisContract, n, strict) IN
         /\ exited' = r.exit
         /\ ret' = IF r.exit THEN RetNone ELSE RetInt(r.ret)
         /\ lastop' = Op("index", n, strict, 0)
         /\ UNCHANGED <<cvars, issued, order>>
    /\ UNCHANGED <<tvars, mvars, ovars>>

\* A caller asks for the name at an index the contract holds.
Name ==
    /\ ~exited
    /\ \E ix \in 0 .. (Len(_ix_to_field) - 1) :
         /\ ret' = RetName(name(ThisContract, ix))
         /\ lastop' = Op("name", "", FALSE, ix)
         /\ UNCHANGED <<cvars, exited, issued, order>>
    /\ UNCHANGED <<tvars, mvars, ovars>>

(***************************************************************************)
(* Part 2.  VarTransformer and IceModel_PISM::setup_contracts_modele       *)
(***************************************************************************)

\* Coefficients and outputs are integer multiples of 1/Scale.
Scale == 10 * 10

\* C2K, 273.15, in units of 1/Scale.
C2K == 27315

InVals == {-3, 10}
LinCoefs == {-1, 2}
ScalarVals == {3}
CouplingTypes == {"DIRICHLET_BC", "NEUMANN_BC"}
\* getEnthalpyInterval's E_l (J/kg): 437000 with the default configuration.
EnthalpyIntervals == {0, 437000}

MASS_FLUX == "surface_downward_mass_flux"
ENTHALPY_FLUX == "surface_downward_enthalpy_flux"
T == "surface_temperature"
HEAT_FLUX == "surface_downward_conductive_heat_flux"

RECURSIVE MakeContract(_)
MakeContract(names) ==
    IF names = <<>> THEN EmptyContract
    ELSE add_field_named(MakeContract(SubSeq(names, 1, Len(names) - 1)),
                         names[Len(names)], 0, "1", ICE).c

\* What the GCM side may declare.  A contract lacking a name a recipe uses
\* makes that recipe's set() fail.
GcmOutputsChoices ==
    {<<"lismb", "liseb", "litg2">>, <<"lismb", "liseb">>, <<"liseb", "litg2">>}

GcmInputsAll ==
    <<"elev2", "elev1", "ice_surface_enth", "ice_surface_enth_depth",
      "basal_runoff.mass", "basal_runoff.enth", "calving.mass", "calving.enth",
      "strain_heating", "epsilon.mass", "epsilon.enth">>

GcmInputsChoices == {GcmInputsAll, SubSeq(GcmInputsAll, 1, 10)}

ice_input_scalars == MakeContract(<<"by_dt">>)
ice_output_scalars == MakeContract(<<"by_dt">>)

RECURSIVE SumTo(_, _)
SumTo(f, n) == IF n < 0 THEN 0 ELSE f[n] + SumTo(f, n - 1)

\* ---- VarTransformer

NewVarTransformer ==
    [INPUTS |-> EmptyContract, OUTPUTS |-> EmptyContract, SCALARS |-> EmptyContract,
     bound |-> {}, allocated |-> FALSE, tensor |-> <<>>]

set_names(vt, axis, c) ==
    [vt EXCEPT ![axis] = c, !.bound = @ \cup {axis}]

\* allocate(): (|OUTPUTS|, |INPUTS|+1, |SCALARS|+1), zero-filled
allocate(vt) ==
    [vt EXCEPT !.allocated = TRUE,
               !.tensor = [o \in 0 .. size_withunit(vt.OUTPUTS) - 1 |->
                              [i \in 0 .. size_withunit(vt.INPUTS) |->
                                  [k \in 0 .. size_withunit(vt.SCALARS) |-> 0]]]]

\* An axis index of a name; "unit" is the extra last slot of INPUTS and SCALARS.
dim_index(vt, axis, n) ==
    IF n = "unit" /\ axis # "OUTPUTS"
    THEN size_withunit(vt[axis])
    ELSE index(vt[axis], n, FALSE).ret

Resolves(vt, output, input, scalar) ==
    /\ dim_index(vt, "OUTPUTS", output) >= 0
    /\ dim_index(vt, "INPUTS", input) >= 0
    /\ dim_index(vt, "SCALARS", scalar) >= 0

\* VarTransformer::set
set_overwrites(vt, output, input, scalar, val) ==
    IF ~Resolves(vt, output, input, scalar)
    THEN [ok |-> FALSE, vt |-> vt]
    ELSE [ok |-> TRUE,
          vt |-> [vt EXCEPT !.tensor[dim_index(vt, "OUTPUTS", output)]
                                    [dim_index(vt, "INPUTS", input)]
                                    [dim_index(vt, "SCALARS", scalar)] = val]]

set(vt, output, input, scalar, val) ==
    IF ~Resolves(vt, output, input, scalar)
    THEN [ok |-> FALSE, vt |-> vt]
    ELSE [ok |-> TRUE,
          vt |-> [vt EXCEPT !.tensor[dim_index(vt, "OUTPUTS", output)]
                                    [dim_index(vt, "INPUTS", input)]
                                    [dim_index(vt, "SCALARS", scalar)] = @ + val]]

\* out[o] = sum_i sum_s coeff[o,i,s] * in[i] * scalar[s], the unit slots being 1
evaluate(vt, in, scalar) ==
    LET nO == size_withunit(vt.OUTPUTS)
        nI == size_withunit(vt.INPUTS)
        nS == size_withunit(vt.SCALARS)
        inx == [i \in 0 .. nI |-> IF i = nI THEN 1 ELSE in[i]]
        sx == [k \in 0 .. nS |-> IF k = nS THEN 1 ELSE scalar[k]]
    IN [o \in 0 .. nO - 1 |->
           SumTo([i \in 0 .. nI |->
                     SumTo([k \in 0 .. nS |-> vt.tensor[o][i][k] * inx[i] * sx[k]],
                           nS)],
                 nI)]

\* ---- setup_contracts_modele, statement by statement

AddF(io, n, units) == [kind |-> "add_field", io |-> io, a |-> n, b |-> units, c |-> "", k |-> 0]
SetN(io, axis, which) == [kind |-> "set_names", io |-> io, a |-> axis, b |-> which, c |-> "", k |-> 0]
Alloc(io) == [kind |-> "allocate", io |-> io, a |-> "", b |-> "", c |-> "", k |-> 0]
Enth == [kind |-> "enth", io |-> "INPUT", a |-> "", b |-> "", c |-> "", k |-> 0]
Set(io, output, input, scalar, val) ==
    [kind |-> "set", io |-> io, a |-> output, b |-> input, c |-> scalar, k |-> val]
Finish == [kind |-> "finish", io |-> "OUTPUT", a |-> "", b |-> "", c |-> "", k |-> 0]

\* lines 70-96
InputFields(ct) ==
    <<AddF("INPUT", MASS_FLUX, "kg m-2 s-1"), AddF("INPUT", ENTHALPY_FLUX, "W m-2")>>
    \o (IF ct = "DIRICHLET_BC" THEN <<AddF("INPUT", T, "K")>>
        ELSE <<AddF("INPUT", HEAT_FLUX, "W m-2")>>)

\* lines 114-118
InputBind ==
    <<SetN("INPUT", "INPUTS", "gcm_outputs"), SetN("INPUT", "OUTPUTS", "ice_input"),
      SetN("INPUT", "SCALARS", "ice_input_scalars"), Alloc("INPUT")>>

\* lines 123-138
InputRecipes_enthOnUnit(ct, enth) ==
    <<Set("INPUT", MASS_FLUX, "lismb", "unit", 1 * Scale),
      Set("INPUT", ENTHALPY_FLUX, "liseb", "unit", 1 * Scale),
      Set("INPUT", ENTHALPY_FLUX, "unit", "unit", enth * Scale)>>
    \o (IF ct = "DIRICHLET_BC"
        THEN <<Set("INPUT", T, "litg2", "unit", 1 * Scale),
               Set("INPUT", T, "unit", "unit", C2K)>>
        ELSE <<>>)

InputRecipes_enthOnLiseb(ct, enth) ==
    <<Set("INPUT", MASS_FLUX, "lismb", "unit", 1 * Scale),
      Set("INPUT", ENTHALPY_FLUX, "liseb", "unit", 1 * Scale),
      Set("INPUT", ENTHALPY_FLUX, "liseb", "unit", enth * Scale)>>
    \o (IF ct = "DIRICHLET_BC"
        THEN <<Set("INPUT", T, "litg2", "unit", 1 * Scale),
               Set("INPUT", T, "unit", "unit", C2K)>>
        ELSE <<>>)

InputRecipes_noC2K(ct, enth) ==
    <<Set("INPUT", MASS_FLUX, "lismb", "unit", 1 * Scale),
      Set("INPUT", ENTHALPY_FLUX, "liseb", "unit", 1 * Scale),
      Set("INPUT", ENTHALPY_FLUX, "lismb", "unit", enth * Scale)>>
    \o (IF ct = "DIRICHLET_BC"
        THEN <<Set("INPUT", T, "litg2", "unit", 1 * Scale)>>
        ELSE <<>>)

InputRecipes(ct, enth) ==
    <<Set("INPUT", MASS_FLUX, "lismb", "unit", 1 * Scale),
      Set("INPUT", ENTHALPY_FLUX, "liseb", "unit", 1 * Scale),
      Set("INPUT", ENTHALPY_FLUX, "lismb", "unit", enth * Scale)>>
    \o (IF ct = "DIRICHLET_BC"
        THEN <<Set("INPUT", T, "litg2", "unit", 1 * Scale),
               Set("INPUT", T, "unit", "unit", C2K)>>
        ELSE <<>>)

\* lines 144-154
OutputFields ==
    <<AddF("OUTPUT", "usurf", "m"),
      AddF("OUTPUT", "ice_surface_enth", "J kg-1"),
      AddF("OUTPUT", "ice_surface_enth_depth", "m"),
      AddF("OUTPUT", "basal_runoff.mass", "kg m-2 s-1"),
      AddF("OUTPUT", "basal_runoff.enth", "W m-2"),
      AddF("OUTPUT", "calving.mass", "kg m-2 s-1"),
      AddF("OUTPUT", "calving.enth", "W m-2"),
      AddF("OUTPUT", "strain_heating", "W m-2"),
      AddF("OUTPUT", "epsilon.mass", "kg m-2 s-1"),
      AddF("OUTPUT", "epsilon.enth", "W m-2")>>

\* lines 159-162
OutputBind ==
    <<SetN("OUTPUT", "INPUTS", "ice_output"), SetN("OUTPUT", "OUTPUTS", "gcm_inputs"),
      SetN("OUTPUT", "SCALARS", "ice_output_scalars"), Alloc("OUTPUT")>>

\* lines 164-186.  Line 170 names enth_model_to_pism, which is declared nowhere;
\* it is read as enth_modele_to_pism, the only offset in scope.
OutputRecipes(enth) ==
    <<Set("OUTPUT", "elev2", "usurf", "unit", 1 * Scale),
      Set("OUTPUT", "elev1", "usurf", "unit", 1 * Scale),
      Set("OUTPUT", "ice_surface_enth", "ice_surface_enth", "unit", 1 * Scale),
      Set("OUTPUT", "ice_surface_enth", "ice_surface_enth", "unit", (-enth) * Scale),
      Set("OUTPUT", "ice_surface_enth_depth", "ice_surface_enth_depth", "unit", 1 * Scale),
      Set("OUTPUT", "basal_runoff.mass", "basal_runoff.mass", "unit", 1 * Scale),
      Set("OUTPUT", "basal_runoff.enth", "basal_runoff.enth", "unit", 1 * Scale),
      Set("OUTPUT", "basal_runoff.enth", "basal_runoff.enth", "unit", (-enth) * Scale),
      Set("OUTPUT", "calving.mass", "calving.mass", "unit", 1 * Scale),
      Set("OUTPUT", "calving.enth", "calving.enth", "unit", 1 * Scale),
      Set("OUTPUT", "calving.enth", "calving.enth", "unit", (-enth) * Scale),
      Set("OUTPUT", "strain_heating", "strain_heating", "unit", 1 * Scale),
      Set("OUTPUT", "epsilon.mass", "epsilon.mass", "unit", 1 * Scale),
      Set("OUTPUT", "epsilon.enth", "epsilon.enth", "unit", 1 * Scale),
      Set("OUTPUT", "epsilon.enth", "epsilon.enth", "unit", (-enth) * Scale)>>

Program_outputfieldsfirst(ct, enth) ==
    InputFields(ct) \o <<Enth>> \o InputBind \o OutputFields \o InputRecipes(ct, enth)
    \o OutputBind \o OutputRecipes(enth) \o <<Finish>>

\* The body of setup_contracts_modele from line 61 on, in statement order.
Program(ct, enth) ==
    InputFields(ct) \o <<Enth>> \o InputBind \o InputRecipes(ct, enth)
    \o OutputFields \o OutputBind \o OutputRecipes(enth) \o <<Finish>>

Stmt == Program(coupling_type, enth_modele_to_pism)[pc]
Running == outcome = "running" /\ pc \in 1 .. Len(Program(coupling_type, enth_modele_to_pism))

\* ok = ok && vt.set(...): set is not called once ok is false
ok_assign_set(okv, vt, output, input, scalar, val) ==
    [called |-> TRUE, ok |-> set(vt, output, input, scalar, val).ok,
     vt |-> set(vt, output, input, scalar, val).vt]

ok_and_set(okv, vt, output, input, scalar, val) ==
    IF okv
    THEN [called |-> TRUE, ok |-> set(vt, output, input, scalar, val).ok,
          vt |-> set(vt, output, input, scalar, val).vt]
    ELSE [called |-> FALSE, ok |-> FALSE, vt |-> vt]

NoEval == [io |-> "", in |-> <<>>, scalar |-> <<>>, out |-> <<>>]

SetupIdle ==
    /\ coupling_type = ""
    /\ gcm_outputs = EmptyContract
    /\ gcm_inputs = EmptyContract
    /\ scalar_value = 0
    /\ contract = <<>>
    /\ var_transformer = <<>>
    /\ enth_modele_to_pism = 0
    /\ ok = TRUE
    /\ pc = 0
    /\ outcome = "idle"
    /\ calls = <<>>
    /\ eval = NoEval

\* On entry to setup_contracts_modele at line 61: the coupler's contracts are
\* whatever the GCM declared, the ice model's are empty.
SetupInit ==
    /\ coupling_type \in CouplingTypes
    /\ \E names \in GcmOutputsChoices : gcm_outputs = MakeContract(names)
    /\ \E names \in GcmInputsChoices : gcm_inputs = MakeContract(names)
    /\ scalar_value \in ScalarVals
    /\ contract = [io \in {"INPUT", "OUTPUT"} |-> EmptyContract]
    /\ var_transformer = [io \in {"INPUT", "OUTPUT"} |-> NewVarTransformer]
    /\ enth_modele_to_pism = 0
    /\ ok = TRUE
    /\ pc = 1
    /\ outcome = "running"
    /\ calls = <<>>
    /\ eval = NoEval

\* contract[io].add_field(name, units, "ICE", description)
AddFieldStep ==
    /\ Running
    /\ Stmt.kind = "add_field"
    /\ LET r == add_field_named(contract[Stmt.io], Stmt.a, 0, Stmt.b, ICE) IN
         /\ contract' = [contract EXCEPT ![Stmt.io] = r.c]
         /\ outcome' = IF r.exit THEN "exited" ELSE outcome
    /\ pc' = pc + 1
    /\ UNCHANGED <<c1vars, mvars, ovars, coupling_type, gcm_outputs, gcm_inputs, scalar_value,
                   var_transformer, enth_modele_to_pism, ok, calls, eval>>

\* enth.getEnthalpyInterval(pressure, E_s, E_l); enth_modele_to_pism = E_l
EnthStep ==
    /\ Running
    /\ Stmt.kind = "enth"
    /\ enth_modele_to_pism' \in EnthalpyIntervals
    /\ pc' = pc + 1
    /\ UNCHANGED <<c1vars, mvars, ovars, coupling_type, gcm_outputs, gcm_inputs, scalar_value, contract,
                   var_transformer, ok, outcome, calls, eval>>

NamedContract(which) ==
    CASE which = "gcm_outputs" -> gcm_outputs
      [] which = "gcm_inputs" -> gcm_inputs
      [] which = "ice_input" -> contract["INPUT"]
      [] which = "ice_output" -> contract["OUTPUT"]
      [] which = "ice_input_scalars" -> ice_input_scalars
      [] which = "ice_output_scalars" -> ice_output_scalars

\* vt.set_names(axis, &contract)
SetNamesStep ==
    /\ Running
    /\ Stmt.kind = "set_names"
    /\ var_transformer' =
         [var_transformer EXCEPT ![Stmt.io] = set_names(@, Stmt.a, NamedContract(Stmt.b))]
    /\ pc' = pc + 1
    /\ UNCHANGED <<c1vars, mvars, ovars, coupling_type, gcm_outputs, gcm_inputs, scalar_value, contract,
                   enth_modele_to_pism, ok, outcome, calls, eval>>

\* vt.allocate()
AllocateStep ==
    /\ Running
    /\ Stmt.kind = "allocate"
    /\ var_transformer' = [var_transformer EXCEPT ![Stmt.io] = allocate(@)]
    /\ pc' = pc + 1
    /\ UNCHANGED <<c1vars, mvars, ovars, coupling_type, gcm_outputs, gcm_inputs, scalar_value, contract,
                   enth_modele_to_pism, ok, outcome, calls, eval>>

\* ok = ok && vt.set(output, input, scalar, val)
SetStep ==
    /\ Running
    /\ Stmt.kind = "set"
    /\ LET r == ok_and_set(ok, var_transformer[Stmt.io], Stmt.a, Stmt.b, Stmt.c, Stmt.k) IN
         /\ ok' = r.ok
         /\ var_transformer' = [var_transformer EXCEPT ![Stmt.io] = r.vt]
         /\ calls' = IF r.called
                     THEN Append(calls, [io |-> Stmt.io, output |-> Stmt.a,
                                         input |-> Stmt.b, scalar |-> Stmt.c,
                                         val |-> Stmt.k, ok |-> r.ok])
                     ELSE calls
    /\ pc' = pc + 1
    /\ UNCHANGED <<c1vars, mvars, ovars, coupling_type, gcm_outputs, gcm_inputs, scalar_value, contract,
                   enth_modele_to_pism, outcome, eval>>

\* if (!ok) throw std::exception();
FinishStep ==
    /\ Running
    /\ Stmt.kind = "finish"
    /\ outcome' = IF ok THEN "returned" ELSE "thrown"
    /\ pc' = pc + 1
    /\ UNCHANGED <<c1vars, mvars, ovars, coupling_type, gcm_outputs, gcm_inputs, scalar_value, contract,
                   var_transformer, enth_modele_to_pism, ok, calls, eval>>

\* The input vectors evaluate is tried on: one entry v, every other entry w.
InputVectors(n) ==
    {[i \in 0 .. n - 1 |-> IF i = j THEN v ELSE w] :
        j \in 0 .. n - 1, v \in InVals \cup {0}, w \in InVals \cup {0}}

ScalarVector(vt) == [k \in 0 .. size_withunit(vt.SCALARS) - 1 |-> scalar_value]

\* A coupling timestep evaluates a transformer that setup has built.  A run
\* keeps the first evaluation it makes.
Evaluate ==
    /\ outcome = "returned"
    /\ eval = NoEval
    /\ \E io \in {"INPUT", "OUTPUT"} :
         \E in \in InputVectors(size_withunit(var_transformer[io].INPUTS)) :
            eval' = [io |-> io, in |-> in,
                     scalar |-> ScalarVector(var_transformer[io]),
                     out |-> evaluate(var_transformer[io], in,
                                      ScalarVector(var_transformer[io]))]
    /\ UNCHANGED <<c1vars, mvars, ovars, coupling_type, gcm_outputs, gcm_inputs, scalar_value, contract,
                   var_transformer, enth_modele_to_pism, ok, pc, outcome, calls>>

NextSetup ==
    \/ AddFieldStep
    \/ EnthStep
    \/ SetNamesStep
    \/ AllocateStep
    \/ SetStep
    \/ FinishStep
    \/ Evaluate

ContractIdle ==
    /\ _ix_to_field = <<>>
    /\ _name_to_ix = <<>>
    /\ _size_nounit = 0
    /\ _unit_ix = 1
    /\ exited = FALSE
    /\ lastop = Op("idle", "", FALSE, 0)
    /\ ret = RetNone
    /\ issued = <<>>
    /\ order = <<>>

(***************************************************************************)
(* Part 3.  MatrixMaker: ice sheets, compute_fhc and hp_to_hc              *)
(***************************************************************************)

\* ---- Exact fractions <<numerator, denominator>>.  A zero denominator is what
\* IEEE division by zero leaves: <<0, 0>> is NaN, <<1, 0>> and <<-1, 0>> are
\* the infinities.

RECURSIVE GCD(_, _)
GCD(a, b) == IF b = 0 THEN a ELSE GCD(b, a % b)
Abs(x) == IF x < 0 THEN -x ELSE x
Sign(x) == IF x < 0 THEN -1 ELSE IF x > 0 THEN 1 ELSE 0

Frac(n, d) ==
    IF d = 0 THEN <<Sign(n), 0>>
    ELSE LET g == GCD(Abs(n), Abs(d)) IN <<Sign(d) * (n \div g), Abs(d) \div g>>

NaN == <<0, 0>>
Zero == <<0, 1>>
One == <<1, 1>>
FInt(n) == <<n, 1>>

FAdd(x, y) ==
    IF x[2] # 0 /\ y[2] # 0 THEN Frac(x[1] * y[2] + y[1] * x[2], x[2] * y[2])
    ELSE IF x[2] # 0 THEN y
    ELSE IF y[2] # 0 THEN x
    ELSE IF x = y THEN x ELSE NaN

FMul(x, y) ==
    IF x[2] # 0 /\ y[2] # 0 THEN Frac(x[1] * y[1], x[2] * y[2])
    ELSE <<Sign(x[1]) * Sign(y[1]), 0>>

FDiv_zeroclamped(x, y) ==
    IF x[2] # 0 /\ y[2] # 0
    THEN (IF y[1] = 0 THEN Zero ELSE Frac(x[1] * y[2] * Sign(y[1]), x[2] * Abs(y[1])))
    ELSE IF x[2] # 0 THEN (IF y = NaN THEN NaN ELSE Zero)
    ELSE IF y[2] # 0 THEN <<x[1] * (IF y[1] < 0 THEN -1 ELSE 1), 0>>
    ELSE NaN

FDiv(x, y) ==
    IF x[2] # 0 /\ y[2] # 0 THEN Frac(x[1] * y[2] * Sign(y[1]), x[2] * Abs(y[1]))
    ELSE IF x[2] # 0 THEN (IF y = NaN THEN NaN ELSE Zero)
    ELSE IF y[2] # 0 THEN <<x[1] * (IF y[1] < 0 THEN -1 ELSE 1), 0>>
    ELSE NaN

\* ---- The GCM grid and the height points the caller configured

\* grid1->ndata(): number of GCM cells.
N1 == 2
hpdefs == <<0, 4>>
hcmax == <<2, 100>>
nhc == Len(hpdefs)

\* HCIndex
ik_to_index(i1, hc) == hc * N1 + i1
index_to_ik(i1hc) == [i1 |-> i1hc % N1, hc |-> i1hc \div N1]

\* ---- Sparse containers

AccAdd_overwrite(acc, key, val) ==
    [k \in (DOMAIN acc) \cup {key} |-> IF k = key THEN val ELSE acc[k]]

\* SparseAccumulator<int,double>: add() sums into the key's value
AccAdd(acc, key, val) ==
    [k \in (DOMAIN acc) \cup {key} |->
        IF k = key THEN (IF key \in DOMAIN acc THEN FAdd(acc[key], val) ELSE val)
        ELSE acc[k]]

\* The keys of an int-keyed container in ascending order.
RECURSIVE SortedKeys(_)
SortedKeys(S) ==
    IF S = {} THEN <<>>
    ELSE LET m == CHOOSE x \in S : \A y \in S : x <= y IN <<m>> \o SortedKeys(S \ {m})

\* CooVector / VectorSparseMatrix entries compare by key: a vector's key is
\* <<i>> or <<i1, hc>>, a matrix entry's is <<row, col>>.
KeyLess(a, b) ==
    \/ a[1] < b[1]
    \/ a[1] = b[1] /\ Len(a) > 1 /\ a[2] < b[2]

RECURSIVE InsertSorted(_, _)
InsertSorted(seq, e) ==
    IF seq = <<>> THEN <<e>>
    ELSE IF KeyLess(e.key, seq[Len(seq)].key)
         THEN Append(InsertSorted(SubSeq(seq, 1, Len(seq) - 1), e), seq[Len(seq)])
         ELSE Append(seq, e)

\* CooVector::sort: entries ordered by key, duplicates kept
RECURSIVE CooSort(_)
CooSort(seq) ==
    IF seq = <<>> THEN <<>>
    ELSE InsertSorted(CooSort(SubSeq(seq, 1, Len(seq) - 1)), seq[Len(seq)])

\* sum_duplicates: sorted, entries of one key summed into one
RECURSIVE MergeSorted(_)
MergeSorted(seq) ==
    IF Len(seq) <= 1 THEN seq
    ELSE LET front == MergeSorted(SubSeq(seq, 1, Len(seq) - 1))
             e == seq[Len(seq)]
             last == front[Len(front)]
         IN IF last.key = e.key
            THEN [front EXCEPT ![Len(front)] = [key |-> e.key, val |-> FAdd(last.val, e.val)]]
            ELSE Append(front, e)

sum_duplicates(seq) == MergeSorted(CooSort(seq))

Entry(key, val) == [key |-> key, val |-> val]

\* multiply(A, B): the entries (row, col) of A * B, each the sum over the inner index
RECURSIVE RowTimes(_, _, _)
RowTimes(a, B, n) ==
    IF n = 0 THEN <<>>
    ELSE RowTimes(a, B, n - 1)
         \o (IF B[n].key[1] = a.key[2]
             THEN <<Entry(<<a.key[1], B[n].key[2]>>, FMul(a.val, B[n].val))>>
             ELSE <<>>)

RECURSIVE Products(_, _, _)
Products(A, B, n) ==
    IF n = 0 THEN <<>> ELSE Products(A, B, n - 1) \o RowTimes(A[n], B, Len(B))

multiply(A, B) == sum_duplicates(Products(A, B, Len(A)))

\* divide_by(mat, area, area_inv): every entry divided by its row's area
divide_by(mat, area) ==
    [n \in 1 .. Len(mat) |->
        Entry(mat[n].key,
              FDiv(mat[n].val,
                   IF mat[n].key[1] \in DOMAIN area THEN area[mat[n].key[1]] ELSE Zero))]

\* ---- IceSheet (L0): an exchange grid of overlaps (i: GCM cell, j: ice cell,
\* area), an elevation per ice cell, and the GCM cells' areas in the sheet's
\* own projection.

get_hc(elev) == IF elev <= hcmax[1] THEN 0 ELSE 1

RECURSIVE accum_areas(_, _, _, _)
accum_areas(sheet, n, larea1_m, area1_m_hc) ==
    IF n = 0 THEN [larea1_m |-> larea1_m, area1_m_hc |-> area1_m_hc]
    ELSE LET prev == accum_areas(sheet, n - 1, larea1_m, area1_m_hc)
             cell == sheet.exgrid[n]
         IN [larea1_m |-> AccAdd(prev.larea1_m, cell.i, FInt(cell.area)),
             area1_m_hc |-> AccAdd(prev.area1_m_hc,
                                   ik_to_index(cell.i, get_hc(sheet.elev2[cell.j + 1])),
                                   FInt(cell.area))]

\* Overlap area per ice cell.
RECURSIVE Area2(_, _, _)
Area2(sheet, j, n) ==
    IF n = 0 THEN 0
    ELSE Area2(sheet, j, n - 1) + (IF sheet.exgrid[n].j = j THEN sheet.exgrid[n].area ELSE 0)

\* hp_to_ice: each ice cell interpolated between the two height points around
\* its elevation, weighted by the share of the cell each overlap holds
RECURSIVE hp_to_ice_cells(_, _)
hp_to_ice_cells(sheet, n) ==
    IF n = 0 THEN <<>>
    ELSE LET cell == sheet.exgrid[n]
             elev == sheet.elev2[cell.j + 1]
             ratio == Frac(elev - hpdefs[1], hpdefs[2] - hpdefs[1])
             share == Frac(cell.area, Area2(sheet, cell.j, Len(sheet.exgrid)))
         IN hp_to_ice_cells(sheet, n - 1)
            \o <<Entry(<<cell.j, ik_to_index(cell.i, 0)>>,
                       FMul(share, FAdd(One, FMul(FInt(-1), ratio)))),
                 Entry(<<cell.j, ik_to_index(cell.i, 1)>>, FMul(share, ratio))>>

hp_to_ice(sheet) == sum_duplicates(hp_to_ice_cells(sheet, Len(sheet.exgrid)))

\* ice_to_hc(area1_m_hc): overlap areas by (GCM cell, height class) row and ice
\* cell column, the areas also added to the accumulator
RECURSIVE ice_to_hc_cells(_, _)
ice_to_hc_cells(sheet, n) ==
    IF n = 0 THEN <<>>
    ELSE LET cell == sheet.exgrid[n] IN
         ice_to_hc_cells(sheet, n - 1)
         \o <<Entry(<<ik_to_index(cell.i, get_hc(sheet.elev2[cell.j + 1])), cell.j>>,
                    FInt(cell.area))>>

ice_to_hc(sheet, area1_m_hc) ==
    [mat |-> sum_duplicates(ice_to_hc_cells(sheet, Len(sheet.exgrid))),
     area1_m_hc |-> accum_areas(sheet, Len(sheet.exgrid), <<>>, area1_m_hc).area1_m_hc]

\* ---- MatrixMaker

\* std::map iterates sheets by name.
NameOrder == <<"antarctica", "greenland">>
SheetOrder(sh) == SelectSeq(NameOrder, LAMBDA n : n \in DOMAIN sh)

\* The per-sheet part of compute_fhc (lines 68-91).
RECURSIVE fhc_sheets(_, _, _)
fhc_sheets(sh, names, n) ==
    IF n = 0 THEN [fgice1 |-> <<>>, area1_m |-> <<>>, area1_m_hc |-> <<>>]
    ELSE LET prev == fhc_sheets(sh, names, n - 1)
             sheet == sh[names[n]]
             acc == accum_areas(sheet, Len(sheet.exgrid), <<>>, prev.area1_m_hc)
             keys == SortedKeys(DOMAIN acc.larea1_m)
             RECURSIVE Contribute(_)
             Contribute(k) ==
                 IF k = 0 THEN [fgice1 |-> prev.fgice1, area1_m |-> prev.area1_m]
                 ELSE LET p == Contribute(k - 1)
                          i1 == keys[k]
                      IN [fgice1 |-> Append(p.fgice1,
                                            Entry(<<i1>>, FDiv(acc.larea1_m[i1],
                                                               FInt(sheet.area1[i1 + 1])))),
                          area1_m |-> AccAdd(p.area1_m, i1, acc.larea1_m[i1])]
             done == Contribute(Len(keys))
         IN [fgice1 |-> done.fgice1, area1_m |-> done.area1_m,
             area1_m_hc |-> acc.area1_m_hc]

\* compute_fhc(fhc1h, fgice1)
compute_fhc(sh) ==
    LET names == SheetOrder(sh)
        r == fhc_sheets(sh, names, Len(names))
        keys == SortedKeys(DOMAIN r.area1_m_hc)
    IN [fgice1 |-> CooSort(r.fgice1),
        fhc1h |-> CooSort([k \in 1 .. Len(keys) |->
                     Entry(<<index_to_ik(keys[k]).i1, index_to_ik(keys[k]).hc>>,
                           FDiv(r.area1_m_hc[keys[k]],
                                r.area1_m[index_to_ik(keys[k]).i1]))])]

\* The per-sheet part of hp_to_hc (lines 126-143).
RECURSIVE hp_to_hc_sheets(_, _, _)
hp_to_hc_sheets(sh, names, n) ==
    IF n = 0 THEN [ret |-> <<>>, area1_m_hc |-> <<>>]
    ELSE LET prev == hp_to_hc_sheets(sh, names, n - 1)
             sheet == sh[names[n]]
             i2hc == ice_to_hc(sheet, prev.area1_m_hc)
         IN [ret |-> prev.ret \o multiply(i2hc.mat, hp_to_ice(sheet)),
             area1_m_hc |-> i2hc.area1_m_hc]

\* hp_to_hc()
hp_to_hc_persheet(sh) ==
    LET names == SheetOrder(sh)
        RECURSIVE Each(_)
        Each(n) ==
            IF n = 0 THEN <<>>
            ELSE LET one == hp_to_hc_sheets(sh, <<names[n]>>, 1)
                 IN Each(n - 1) \o divide_by(one.ret, one.area1_m_hc)
    IN sum_duplicates(Each(Len(names)))

hp_to_hc_nodivide(sh) ==
    LET names == SheetOrder(sh)
        r == hp_to_hc_sheets(sh, names, Len(names))
    IN sum_duplicates(r.ret)

hp_to_hc(sh) ==
    LET names == SheetOrder(sh)
        r == hp_to_hc_sheets(sh, names, Len(names))
    IN sum_duplicates(divide_by(r.ret, r.area1_m_hc))

\* ---- The sheets a caller may register

Cell(i, j, area) == [i |-> i, j |-> j, area |-> area]

ExgridChoices ==
    {<<Cell(0, 0, 2), Cell(0, 1, 2)>>,
     <<Cell(0, 0, 2), Cell(1, 0, 1), Cell(1, 1, 2)>>,
     <<Cell(0, 0, 1), Cell(0, 1, 1)>>,
     <<Cell(0, 0, 4)>>,
     <<Cell(1, 0, 0)>>}

ElevChoices == {<<0, 0>>, <<1, 1>>, <<1, 3>>}
SheetNames == {"", "antarctica", "greenland"}

\* area_of_proj_polygon(*cell, proj): every GCM cell measures 4 in either
\* sheet's projection.
ProjectedAreas == [i \in 1 .. N1 |-> 4]

\* mask1 is an optional array: Absent, or its extent(0).
Absent == -1
NotRealized == [mask1 |-> Absent, hcmax |-> 0, outcome |-> "", calls |-> <<>>]

\* Calls of add_ice_sheet explored on one MatrixMaker.
MaxSheetIndex == 4

\* mask1 as a member: an optional array.
NoMask == [present |-> FALSE, data |-> <<>>]
Mask(data) == [present |-> TRUE, data |-> data]

\* No file yet.  from keeps what the written MatrixMaker held.
NoFile == [state |-> "none", vars |-> <<>>, sheetnames |-> <<>>,
           from |-> [mask1 |-> NoMask, hpdefs |-> <<>>, hcmax |-> <<>>, names |-> <<>>]]

MatrixMakerIdle ==
    /\ sheets = <<>>
    /\ sheets_by_id = <<>>
    /\ _next_sheet_index = 0
    /\ fgice1 = <<>>
    /\ fhc1h = <<>>
    /\ hp2hc = <<>>
    /\ mm_done = {}
    /\ realized = NotRealized
    /\ arrays = [mask1 |-> NoMask, hpdefs |-> hpdefs, hcmax |-> hcmax]
    /\ nc = NoFile

\* add_ice_sheet(sheet): sheets are registered before any matrix is computed
\* add_ice_sheet(sheet) with a name not yet held, or with the empty name.
AddIceSheet ==
    /\ mm_done \subseteq {"throw"}
    /\ _next_sheet_index < MaxSheetIndex
    /\ \E sname \in SheetNames, ex \in ExgridChoices, el \in ElevChoices :
         /\ sname \notin DOMAIN sheets
         /\ IF sname = ""
            THEN /\ mm_done' = mm_done \cup {"throw"}
                 /\ UNCHANGED <<sheets, sheets_by_id, _next_sheet_index>>
            ELSE /\ _next_sheet_index' = _next_sheet_index + 1
                 /\ sheets_by_id' =
                      [k \in (DOMAIN sheets_by_id) \cup {_next_sheet_index} |->
                          IF k = _next_sheet_index THEN sname ELSE sheets_by_id[k]]
                 /\ sheets' =
                      [k \in (DOMAIN sheets) \cup {sname} |->
                          IF k = sname
                          THEN [name |-> sname, index |-> _next_sheet_index,
                                exgrid |-> ex, elev2 |-> el, area1 |-> ProjectedAreas]
                          ELSE sheets[k]]
                 /\ UNCHANGED mm_done
    /\ UNCHANGED <<fgice1, fhc1h, hp2hc, realized, arrays, nc>>
    /\ UNCHANGED <<c1vars, tvars, ovars>>

ComputeFhc ==
    /\ "compute_fhc" \notin mm_done
    /\ fgice1' = compute_fhc(sheets).fgice1
    /\ fhc1h' = compute_fhc(sheets).fhc1h
    /\ mm_done' = mm_done \cup {"compute_fhc"}
    /\ UNCHANGED <<sheets, sheets_by_id, _next_sheet_index, hp2hc, realized, arrays, nc>>
    /\ UNCHANGED <<c1vars, tvars, ovars>>

HpToHc ==
    /\ "hp_to_hc" \notin mm_done
    /\ hp2hc' = hp_to_hc(sheets)
    /\ mm_done' = mm_done \cup {"hp_to_hc"}
    /\ UNCHANGED <<sheets, sheets_by_id, _next_sheet_index, fgice1, fhc1h, realized, arrays, nc>>
    /\ UNCHANGED <<c1vars, tvars, ovars>>

\* ---- Persistence: netcdf_define and read_from_netcdf

Mask1Data == {<<0, 1>>, <<1, 1>>}
VarNames == {"m"}

\* The caller supplies mask1.
SetMask1 ==
    /\ nc.state = "none"
    /\ ~arrays.mask1.present
    /\ mm_done \subseteq {"throw"}
    /\ \E data \in Mask1Data : arrays' = [arrays EXCEPT !.mask1 = Mask(data)]
    /\ UNCHANGED <<sheets, sheets_by_id, _next_sheet_index, fgice1, fhc1h, hp2hc, mm_done,
                   realized, nc>>
    /\ UNCHANGED <<c1vars, tvars, ovars>>

\* The sheetnames attribute as text: names with "," between them (lines 174-180).
RECURSIVE JoinNames(_)
JoinNames(names) ==
    IF Len(names) = 1 THEN <<names[1]>>
    ELSE <<names[1], ",">> \o JoinNames(Tail(names))

\* parse_comma_list: getline(ss, substr, ',') while ss.good()
RECURSIVE parse_comma_list(_)
parse_comma_list(list) ==
    IF list = <<>> THEN <<"">>
    ELSE IF list[1] = "," THEN <<"">> \o parse_comma_list(Tail(list))
    ELSE IF Len(list) = 1 THEN <<list[1]>>
    ELSE IF list[2] = "," THEN <<list[1]>> \o parse_comma_list(SubSeq(list, 3, Len(list)))
    ELSE parse_comma_list(<<list[1] \o list[2]>> \o SubSeq(list, 3, Len(list)))

Var(vname, value) == [v \in {vname} |-> value]

RECURSIVE SheetVars(_, _, _)
SheetVars(vname, sh, names) ==
    IF names = <<>> THEN <<>>
    ELSE Var(vname \o "." \o names[1], sh[names[1]]) @@ SheetVars(vname, sh, Tail(names))

\* The name read_from_netcdf looks mask1 up under (lines 245-247).
mask1_name_dotted(vname) == vname \o ".mask1"

\* The name netcdf_define writes mask1 under (line 191).
mask1_name(vname) == vname \o "mask1"

\* netcdf_define(nc, vname) and the write functions it returns.  With no sheet
\* the loop at line 175 dereferences sheets.end().
netcdf_define(vname) ==
    IF DOMAIN sheets = {}
    THEN [NoFile EXCEPT !.state = "crashed"]
    ELSE [state |-> "written",
          vars |-> Var(vname \o ".grid1", "grid1")
                   @@ (IF arrays.mask1.present
                       THEN Var(mask1_name(vname), arrays.mask1.data) ELSE <<>>)
                   @@ Var(vname \o ".hpdefs", arrays.hpdefs)
                   @@ Var(vname \o ".hcmax", arrays.hcmax)
                   @@ SheetVars(vname, sheets, SheetOrder(sheets)),
          sheetnames |-> JoinNames(SheetOrder(sheets)),
          from |-> [mask1 |-> arrays.mask1, hpdefs |-> arrays.hpdefs,
                    hcmax |-> arrays.hcmax, names |-> SheetOrder(sheets)]]

NetcdfDefine ==
    /\ nc.state = "none"
    /\ \E vname \in VarNames : nc' = netcdf_define(vname)
    /\ UNCHANGED <<sheets, sheets_by_id, _next_sheet_index, fgice1, fhc1h, hp2hc, mm_done,
                   realized, arrays>>
    /\ UNCHANGED <<c1vars, tvars, ovars>>

\* add_ice_sheet for each name read, on the cleared maps (lines 262-267)
RECURSIVE ReadSheets(_, _, _)
ReadSheets(vname, names, n) ==
    IF n = 0 THEN [sheets |-> <<>>, sheets_by_id |-> <<>>, next |-> _next_sheet_index]
    ELSE LET prev == ReadSheets(vname, names, n - 1)
             sheet == nc.vars[vname \o "." \o names[n]]
         IN [sheets |-> Var(sheet.name, [sheet EXCEPT !.index = prev.next]) @@ prev.sheets,
             sheets_by_id |-> Var(prev.next, sheet.name) @@ prev.sheets_by_id,
             next |-> prev.next + 1]

\* read_from_netcdf(nc, vname) (lines 239-279)
ReadFromNetcdf ==
    /\ nc.state = "written"
    /\ "read_from_netcdf" \notin mm_done
    /\ \E vname \in VarNames :
         LET names == parse_comma_list(nc.sheetnames)
             rd == ReadSheets(vname, names, Len(names))
         IN /\ arrays' = [mask1 |-> IF mask1_name_dotted(vname) \in DOMAIN nc.vars
                                    THEN Mask(nc.vars[mask1_name_dotted(vname)])
                                    ELSE NoMask,
                          hpdefs |-> nc.vars[vname \o ".hpdefs"],
                          hcmax |-> nc.vars[vname \o ".hcmax"]]
            /\ sheets' = rd.sheets
            /\ sheets_by_id' = rd.sheets_by_id
            /\ _next_sheet_index' = rd.next
    /\ mm_done' = mm_done \cup {"read_from_netcdf"}
    /\ UNCHANGED <<fgice1, fhc1h, hp2hc, realized, nc>>
    /\ UNCHANGED <<c1vars, tvars, ovars>>

\* What sheets.insert(name, sheet) does when the name is already held: the
\* container keeps its entry, replaces it, or refuses.
DuplicateInsertOutcomes == {"kept", "replaced", "refused"}

\* add_ice_sheet(sheet) with a name that is already held.  Line 52 has entered
\* the new index in sheets_by_id before line 53 offers the sheet to sheets.
AddIceSheetAgain ==
    /\ mm_done \subseteq {"throw"}
    /\ _next_sheet_index < MaxSheetIndex
    /\ \E sname \in DOMAIN sheets, o \in DuplicateInsertOutcomes :
         /\ _next_sheet_index' = _next_sheet_index + 1
         /\ sheets_by_id' = Var(_next_sheet_index, sname) @@ sheets_by_id
         /\ sheets' = IF o = "replaced"
                      THEN [sheets EXCEPT ![sname].index = _next_sheet_index]
                      ELSE sheets
         /\ mm_done' = IF o = "refused" THEN mm_done \cup {"insert refused"} ELSE mm_done
    /\ UNCHANGED <<fgice1, fhc1h, hp2hc, realized, arrays, nc>>
    /\ UNCHANGED <<c1vars, tvars, ovars>>

\* clear() (lines 8-16): _next_sheet_index and hcmax are left as they are.
Clear ==
    /\ mm_done \subseteq {"throw"}
    /\ sheets' = <<>>
    /\ sheets_by_id' = <<>>
    /\ arrays' = [arrays EXCEPT !.mask1 = NoMask, !.hpdefs = <<>>]
    /\ UNCHANGED <<_next_sheet_index, fgice1, fhc1h, hp2hc, mm_done, realized, nc>>
    /\ UNCHANGED <<c1vars, tvars, ovars>>

\* The arrays a caller may have supplied when it calls realize().
Mask1Choices == {Absent, N1, N1 + 1}
HcmaxExtents == {nhc, nhc + 1}

\* How the error branches of realize() can end.  Both fprintf calls pass an int
\* for %s and two arguments for three conversions, and the second one evaluates
\* mask1->extent(0) even when mask1 is null: the behaviour is undefined, and the
\* process either dies in the fprintf or goes on to the throw.
ErrorBranchOutcomes == {"thrown", "crashed"}

\* realize() (lines 18-38); calls lists the sheets whose realize() was invoked.
Realize ==
    /\ realized = NotRealized
    /\ \E m \in Mask1Choices, h \in HcmaxExtents :
         LET n1 == N1
             nhc_ == Len(hpdefs)
         IN IF (m # Absent /\ m # n1) \/ h # nhc_
            THEN \E o \in ErrorBranchOutcomes :
                    realized' = [mask1 |-> m, hcmax |-> h, outcome |-> o, calls |-> <<>>]
            ELSE realized' = [mask1 |-> m, hcmax |-> h, outcome |-> "returned",
                              calls |-> SheetOrder(sheets)]
    /\ UNCHANGED <<sheets, sheets_by_id, _next_sheet_index, fgice1, fhc1h, hp2hc, mm_done,
                   arrays, nc>>
    /\ UNCHANGED <<c1vars, tvars, ovars>>

(***************************************************************************)
(* Part 4.  make_merged_topoo: main                                        *)
(***************************************************************************)

MaxElevmasks == 2

\* An elevmask argument <format>:<fname>: whether it holds a colon, the text
\* before the colon and the text after it.
ElevmaskSpecs ==
    {[colon |-> TRUE, stype |-> "pism", spec |-> "greenland.nc"],
     [colon |-> TRUE, stype |-> "pism", spec |-> "antarctica.nc"],
     [colon |-> TRUE, stype |-> "cism", spec |-> "greenland.nc"],
     [colon |-> FALSE, stype |-> "", spec |-> "greenland.nc"]}

RECURSIVE SeqsUpTo(_, _)
SeqsUpTo(S, n) ==
    IF n = 0 THEN {<<>>}
    ELSE SeqsUpTo(S, n - 1)
         \cup {Append(q, x) : q \in {r \in SeqsUpTo(S, n - 1) : Len(r) = n - 1}, x \in S}

\* The sanity-check errors merge_topoO and compute_EOpvAOp_merged may append.
MergeErrors == {<<>>, <<"merge_topoO: 1">>, <<"merge_topoO: 1", "merge_topoO: 2">>}
ComputeErrors == {<<>>, <<"compute_EOpvAOp_merged: 1">>}

TopooStart(args) ==
    [args |-> args, k |-> 0, pc |-> "elevmask", errors |-> <<>>, stderr |-> <<>>,
     written |-> FALSE, status |-> "running"]

TopooIdle == [TopooStart(<<>>) EXCEPT !.pc = "idle"]

TopooInit == topoo \in {TopooStart(a) : a \in SeqsUpTo(ElevmaskSpecs, MaxElevmasks)}

\* (*icebin_error)(-1, ...): the message goes to stderr and the process ends.
icebin_error(t, msg) ==
    [t EXCEPT !.pc = "exited", !.stderr = Append(@, msg), !.status = "icebin_error"]

\* One pass of the loop over args.elevmask_xfnames (lines 233-255)
ElevmaskArg ==
    /\ topoo.pc = "elevmask"
    /\ topoo.k < Len(topoo.args)
    /\ LET xfname == topoo.args[topoo.k + 1] IN
       topoo' = IF ~xfname.colon
                THEN icebin_error(topoo, "must be in the format of type:fname")
                ELSE IF xfname.stype = "pism"
                     THEN [topoo EXCEPT !.k = @ + 1]
                     ELSE icebin_error(topoo, "Unrecognized elevmask spec type")
    /\ UNCHANGED <<c1vars, tvars, mvars, coupler, domain, lookup>>

\* merge_topoO(..., errors) (lines 257-264)
MergeTopoO ==
    /\ topoo.pc = "elevmask"
    /\ topoo.k = Len(topoo.args)
    /\ \E e \in MergeErrors :
         topoo' = [topoo EXCEPT !.pc = "compute", !.errors = <<>> \o e]
    /\ UNCHANGED <<c1vars, tvars, mvars, coupler, domain, lookup>>

\* compute_EOpvAOp_merged(..., errors) (lines 266-272)
ComputeEOpvAOp ==
    /\ topoo.pc = "compute"
    /\ \E e \in ComputeErrors :
         topoo' = [topoo EXCEPT !.pc = "report", !.errors = @ \o e]
    /\ UNCHANGED <<c1vars, tvars, mvars, coupler, domain, lookup>>

\* for (err : errors) fprintf(stderr, "ERROR: %s\n", err) (line 276)
ReportErrors ==
    /\ topoo.pc = "report"
    /\ topoo' = [topoo EXCEPT !.pc = "write", !.stderr = @ \o topoo.errors]
    /\ UNCHANGED <<c1vars, tvars, mvars, coupler, domain, lookup>>

\* The output file is written (lines 278-312)
WriteOutput ==
    /\ topoo.pc = "write"
    /\ topoo' = [topoo EXCEPT !.pc = "return", !.written = TRUE]
    /\ UNCHANGED <<c1vars, tvars, mvars, coupler, domain, lookup>>

ExitStatus_alwayszero(errors) == "0"

\* if (errors.size() > 0) return -1; return 0; (lines 314-315)
ExitStatus(errors) == IF Len(errors) > 0 THEN "-1" ELSE "0"

Return ==
    /\ topoo.pc = "return"
    /\ topoo' = [topoo EXCEPT !.pc = "exited", !.status = ExitStatus(topoo.errors)]
    /\ UNCHANGED <<c1vars, tvars, mvars, coupler, domain, lookup>>

(***************************************************************************)
(* Part 5.  IceCoupler: the coupling lifecycle of each ice sheet           *)
(***************************************************************************)

MaxTimesteps == 2
IceSheets == {"antarctica", "greenland"}

\* Before any timestep: no timestep record.
NoTimestep == [do_run |-> FALSE, before |-> 0, after |-> 0, ice_ovalsI |-> 0, done |-> <<>>]

\* An IceCoupler: its lifecycle state, the number of start times it was given,
\* whether IvE has been computed, the ice model's state (the number of
\* timesteps it has advanced), the number of timesteps coupled, the number of
\* accumulations into GCMCoupleOutput, and the last timestep.
NewIceCoupler ==
    [state |-> "UNINITIALIZED", start_times |-> 0, IvE |-> FALSE, ice |-> 0,
     timesteps |-> 0, accumulated |-> 0, last |-> NoTimestep]

CouplerIdle == <<>>
CouplerInit == coupler = [s \in IceSheets |-> NewIceCoupler]

\* The ice model's output (elevation) as a function of its state.
get_elevI(ice) == 100 - ice

\* UNINITIALIZED -> CONTRACT-BOUND
BindContracts ==
    /\ \E s \in IceSheets :
         /\ coupler[s].state = "UNINITIALIZED"
         /\ coupler' = [coupler EXCEPT ![s].state = "CONTRACT-BOUND"]
    /\ UNCHANGED <<c1vars, tvars, mvars, topoo, domain, lookup>>

CanSetStartTime_again(c) == c.state \in {"CONTRACT-BOUND", "START-TIME-SET"}

CanSetStartTime(c) == c.state = "CONTRACT-BOUND"

\* set_start_time(time_base, time_start_s): CONTRACT-BOUND -> START-TIME-SET
SetStartTime ==
    /\ \E s \in IceSheets :
         /\ CanSetStartTime(coupler[s])
         /\ coupler' = [coupler EXCEPT ![s].state = "START-TIME-SET",
                                       ![s].start_times = @ + 1]
    /\ UNCHANGED <<c1vars, tvars, mvars, topoo, domain, lookup>>

\* START-TIME-SET -> READY: the regridding matrices are computed
ComputeMatrices ==
    /\ \E s \in IceSheets :
         /\ coupler[s].state = "START-TIME-SET"
         /\ coupler' = [coupler EXCEPT ![s].state = "READY", ![s].IvE = TRUE]
    /\ UNCHANGED <<c1vars, tvars, mvars, topoo, domain, lookup>>

run_timestep_alwaysruns(ice, do_run) == ice + 1

\* run_timestep(time_s, ice_ivalsI, ice_ovalsI, do_run): the ice model's state
\* afterwards
run_timestep(ice, do_run) == IF do_run THEN ice + 1 ELSE ice

CanCouple_whenbound(c) == c.state \in {"CONTRACT-BOUND", "START-TIME-SET", "READY"}

CanCouple(c) == c.state = "READY"

\* couple(time_s, gcm_ovalsE, out, do_run): one coupling timestep, steps 1 to 5
Couple ==
    /\ \E s \in IceSheets, do_run \in BOOLEAN :
         /\ CanCouple(coupler[s])
         /\ coupler[s].timesteps < MaxTimesteps
         /\ LET after == run_timestep(coupler[s].ice, do_run) IN
            coupler' =
              [coupler EXCEPT
                 ![s].ice = after,
                 ![s].timesteps = @ + 1,
                 ![s].accumulated = @ + 1,
                 ![s].last = [do_run |-> do_run, before |-> coupler[s].ice,
                              after |-> after, ice_ovalsI |-> get_elevI(after),
                              done |-> <<"input_transform", "regrid", "run_timestep",
                                         "regrid_back", "output_transform",
                                         "accumulate">>]]
    /\ UNCHANGED <<c1vars, tvars, mvars, topoo, domain, lookup>>

\* READY -> TORN-DOWN
TearDown ==
    /\ \E s \in IceSheets :
         /\ coupler[s].state = "READY"
         /\ coupler' = [coupler EXCEPT ![s].state = "TORN-DOWN"]
    /\ UNCHANGED <<c1vars, tvars, mvars, topoo, domain, lookup>>

NextCoupler == BindContracts \/ SetStartTime \/ ComputeMatrices \/ Couple \/ TearDown

\* ---------------------------------------------------------------------------
\* Part 6: ModelEDomain (src/include/glint2/modele/ModelEDomain.hpp)

MaxIm == 3
MaxJm == 3

\* ModelEDomain(_im, _jm, ..., _j0h_f, _j1h_f, ..., _j0_f, _j1_f, ...): the
\* latitude band of this node and its halo, one row wider on either side or not.
Domains ==
    {[im |-> im, jm |-> jm, j0_f |-> j0, j1_f |-> j1, j0h_f |-> j0h, j1h_f |-> j1h] :
        <<im, jm, j0, j1, j0h, j1h>> \in
            {q \in (1..MaxIm) \X (1..MaxJm) \X (1..MaxJm) \X (1..MaxJm)
                      \X (0..MaxJm) \X (1..(MaxJm + 1)) :
                /\ q[3] <= q[4] /\ q[4] <= q[2]
                /\ q[5] \in {q[3] - 1, q[3]}
                /\ q[6] \in {q[4], q[4] + 1}}}

\* global_to_local(gindex_c, lindex): lindex[0] and lindex[1] are here the
\* first and second element.
global_to_local(d, gindex_c) ==
    LET j_c == gindex_c \div d.im
        i_c == gindex_c - d.im * j_c
    IN <<i_c + 1, j_c + 1>>

\* in_domain(lindex): (lindex[0] >= j0_f) && (lindex[1] <= j1_f)
in_domain(d, lindex) == (lindex[1] >= d.j0_f) /\ (lindex[2] <= d.j1_f)

\* in_halo(lindex): (lindex[0] >= j0h_f) && (lindex[1] <= j1h_f)
in_halo(d, lindex) == (lindex[1] >= d.j0h_f) /\ (lindex[2] <= d.j1h_f)

NoDomain == [im |-> 0, jm |-> 0, j0_f |-> 0, j1_f |-> 0, j0h_f |-> 0, j1h_f |-> 0]
NoLookup == [gindex_c |-> 0, lindex |-> <<>>, in_domain |-> {}, in_halo |-> {}]

DomainIdle == domain = NoDomain /\ lookup = NoLookup
DomainInit == domain \in Domains /\ lookup = NoLookup

GlobalToLocal ==
    /\ \E gindex_c \in 0..(domain.im * domain.jm - 1) :
         lookup' = [gindex_c |-> gindex_c, lindex |-> global_to_local(domain, gindex_c),
                    in_domain |-> {}, in_halo |-> {}]
    /\ UNCHANGED <<c1vars, tvars, mvars, topoo, coupler, domain>>

InDomain ==
    /\ lookup.lindex # <<>>
    /\ lookup' = [lookup EXCEPT !.in_domain = {in_domain(domain, lookup.lindex)}]
    /\ UNCHANGED <<c1vars, tvars, mvars, topoo, coupler, domain>>

InHalo ==
    /\ lookup.lindex # <<>>
    /\ lookup' = [lookup EXCEPT !.in_halo = {in_halo(domain, lookup.lindex)}]
    /\ UNCHANGED <<c1vars, tvars, mvars, topoo, coupler, domain>>

NextDomain == GlobalToLocal \/ InDomain \/ InHalo

InitDomain ==
    ContractIdle /\ SetupIdle /\ MatrixMakerIdle /\ topoo = TopooIdle
    /\ coupler = CouplerIdle /\ DomainInit
SpecDomain == InitDomain /\ [][NextDomain]_vars

NextRegrid == AddIceSheet \/ ComputeFhc \/ HpToHc
InitRegrid == ContractIdle /\ SetupIdle /\ MatrixMakerIdle /\ topoo = TopooIdle /\ coupler = CouplerIdle
    /\ DomainIdle
SpecRegrid == InitRegrid /\ [][NextRegrid]_vars

NextPersist == AddIceSheet \/ SetMask1 \/ NetcdfDefine \/ ReadFromNetcdf
InitPersist == ContractIdle /\ SetupIdle /\ MatrixMakerIdle /\ topoo = TopooIdle /\ coupler = CouplerIdle
    /\ DomainIdle
SpecPersist == InitPersist /\ [][NextPersist]_vars

NextSheets == AddIceSheet \/ AddIceSheetAgain \/ Clear
InitSheets == ContractIdle /\ SetupIdle /\ MatrixMakerIdle /\ topoo = TopooIdle /\ coupler = CouplerIdle
    /\ DomainIdle
SpecSheets == InitSheets /\ [][NextSheets]_vars

NextRealize == AddIceSheet \/ Realize
InitRealize == ContractIdle /\ SetupIdle /\ MatrixMakerIdle /\ topoo = TopooIdle /\ coupler = CouplerIdle
    /\ DomainIdle
SpecRealize == InitRealize /\ [][NextRealize]_vars

NextTopoo ==
    ElevmaskArg \/ MergeTopoO \/ ComputeEOpvAOp \/ ReportErrors \/ WriteOutput \/ Return
InitTopoo ==
    ContractIdle /\ SetupIdle /\ MatrixMakerIdle /\ TopooInit /\ coupler = CouplerIdle
    /\ DomainIdle
SpecTopoo == InitTopoo /\ [][NextTopoo]_vars

InitCoupler ==
    ContractIdle /\ SetupIdle /\ MatrixMakerIdle /\ topoo = TopooIdle /\ CouplerInit
    /\ DomainIdle
SpecCoupler == InitCoupler /\ [][NextCoupler]_vars

Init == ContractInit /\ SetupIdle /\ MatrixMakerIdle /\ topoo = TopooIdle /\ coupler = CouplerIdle
    /\ DomainIdle
Next == AddField \/ AddFieldConstRef \/ Index \/ Name
Spec == Init /\ [][Next]_vars

InitSetup == ContractIdle /\ SetupInit /\ MatrixMakerIdle /\ topoo = TopooIdle /\ coupler = CouplerIdle
    /\ DomainIdle
SpecSetup == InitSetup /\ [][NextSetup]_vars

\* ---- Properties of the transformers

Ix(c, n) == index(c, n, FALSE).ret
NamesOf(c) == {c._ix_to_field[i].name : i \in 1 .. Len(c._ix_to_field)}
Done == Len(Program(coupling_type, enth_modele_to_pism)) + 1

\* C5: the OUTPUT transformer gives Enth_e = Enth_p - enth_modele_to_pism for
\* every input value: the offset is an additive constant, not a factor.
C5_EnthOffsetAdditive ==
    eval.io = "OUTPUT" =>
        eval.out[Ix(gcm_inputs, "ice_surface_enth")]
            = Scale * eval.in[Ix(contract["OUTPUT"], "ice_surface_enth")]
              - Scale * enth_modele_to_pism

ScaleVec(a, v) == [i \in DOMAIN v |-> a * v[i]]
AddVec(v, w) == [i \in DOMAIN v |-> v[i] + w[i]]
ConstVectors(n) == {[i \in 0 .. n - 1 |-> v] : v \in InVals \cup {0}}

\* The constant an output receives through the unit input of its transformer.
UnitTerm(io, o) ==
    IF io = "INPUT" /\ coupling_type = "DIRICHLET_BC" /\ o = Ix(contract["INPUT"], T)
    THEN C2K ELSE 0

RECURSIVE Replay(_, _, _)
Replay(vt, io, n) ==
    IF n = 0
    THEN allocate(vt).tensor
    ELSE LET cl == calls[n]
             t == Replay(vt, io, n - 1)
         IN IF cl.io = io /\ cl.ok
            THEN [t EXCEPT ![dim_index(vt, "OUTPUTS", cl.output)]
                           [dim_index(vt, "INPUTS", cl.input)]
                           [dim_index(vt, "SCALARS", cl.scalar)] = @ + cl.val]
            ELSE t

\* C7: set accumulates.  On the zero-filled tensor, each cell holds the sum of
\* the coefficients of the set() calls made on it (k1 + k2 after two calls, not
\* k2), and a cell no call names is still zero.
C7_SetAccumulates ==
    \A io \in DOMAIN var_transformer :
        var_transformer[io].allocated =>
            var_transformer[io].tensor = Replay(var_transformer[io], io, Len(calls))

\* C7 witness: two successful calls named the same cell with non-zero
\* coefficients, and the cell holds their sum.
C7_Witness ==
    \E m, n \in 1 .. Len(calls) :
        /\ m < n
        /\ calls[m].ok /\ calls[n].ok
        /\ calls[m].io = calls[n].io
        /\ calls[m].output = calls[n].output
        /\ calls[m].input = calls[n].input
        /\ calls[m].scalar = calls[n].scalar
        /\ calls[m].val # 0 /\ calls[n].val # 0
        /\ LET vt == var_transformer[calls[n].io] IN
           vt.tensor[dim_index(vt, "OUTPUTS", calls[n].output)]
                    [dim_index(vt, "INPUTS", calls[n].input)]
                    [dim_index(vt, "SCALARS", calls[n].scalar)]
               = calls[m].val + calls[n].val

\* C8: under DIRICHLET_BC, surface_temperature = the GCM temperature input
\* + 273.15 (litg = 10 gives 283.15): the unit scalar and the unit input each
\* contribute a factor of exactly 1.
C8_TemperaturePlusC2K ==
    (eval.io = "INPUT" /\ coupling_type = "DIRICHLET_BC") =>
        eval.out[Ix(contract["INPUT"], T)]
            = Scale * eval.in[Ix(gcm_outputs, "litg2")] + C2K

\* C8 witness: a temperature input of 10 came out as 283.15.
C8_Witness ==
    /\ eval.io = "INPUT"
    /\ coupling_type = "DIRICHLET_BC"
    /\ eval.in[Ix(gcm_outputs, "litg2")] = 10
    /\ eval.out[Ix(contract["INPUT"], T)] = 28315

CallResolves(cl) ==
    /\ cl.output \in NamesOf(var_transformer[cl.io].OUTPUTS)
    /\ cl.input \in NamesOf(var_transformer[cl.io].INPUTS) \cup {"unit"}
    /\ cl.scalar \in NamesOf(var_transformer[cl.io].SCALARS) \cup {"unit"}

\* C9: set() returns false exactly when one of its names does not resolve; ok
\* is the conjunction of the results; the one failure is raised at the end of
\* the sequence, if and only if some set() call failed.
C9_OneCombinedFailure ==
    /\ \A n \in 1 .. Len(calls) : calls[n].ok <=> CallResolves(calls[n])
    /\ ok <=> \A n \in 1 .. Len(calls) : calls[n].ok
    /\ outcome = "thrown" => pc = Done
    /\ pc = Done => outcome \in {"returned", "thrown"}
    /\ pc = Done => (outcome = "thrown" <=> \E n \in 1 .. Len(calls) : ~calls[n].ok)

\* C9 witness: a set() call failed after others had succeeded, and the failure
\* was raised at the end.
C9_Witness ==
    /\ outcome = "thrown"
    /\ Len(calls) >= 2
    /\ calls[1].ok
    /\ \E n \in 1 .. Len(calls) : ~calls[n].ok

\* ---- Properties of the regridding

TheCells(sheet, i1) == {n \in 1 .. Len(sheet.exgrid) : sheet.exgrid[n].i = i1}

RECURSIVE SumAreas(_, _)
SumAreas(sheet, S) ==
    IF S = {} THEN 0
    ELSE LET n == CHOOSE x \in S : TRUE IN sheet.exgrid[n].area + SumAreas(sheet, S \ {n})

\* The sheet's ice covers the whole of GCM cell i1, all of it in height class hc.
Covers(sheet, i1, hc) ==
    /\ TheCells(sheet, i1) # {}
    /\ \A n \in TheCells(sheet, i1) : get_hc(sheet.elev2[sheet.exgrid[n].j + 1]) = hc
    /\ SumAreas(sheet, TheCells(sheet, i1)) = sheet.area1[i1 + 1]

ValuesAt(vec, key) == SelectSeq(vec, LAMBDA e : e.key = key)
RowOf(mat, row) == SelectSeq(mat, LAMBDA e : e.key[1] = row)

RECURSIVE SumVals(_)
SumVals(seq) == IF seq = <<>> THEN Zero ELSE FAdd(seq[1].val, SumVals(Tail(seq)))

\* C10: with a single ice sheet that covers the whole of one GCM cell inside one
\* height class, compute_fhc gives that cell fgice = 1 and that (cell, height
\* class) fhc = 1, and the row of hp_to_hc's matrix for that (cell, height
\* class) sums to 1.
C10_FullCoverNormalized ==
    \A sname \in DOMAIN sheets, i1 \in 0 .. N1 - 1, hc \in 0 .. nhc - 1 :
        (DOMAIN sheets = {sname} /\ Covers(sheets[sname], i1, hc)) =>
            /\ "compute_fhc" \in mm_done =>
                 /\ ValuesAt(fgice1, <<i1>>) = <<Entry(<<i1>>, One)>>
                 /\ ValuesAt(fhc1h, <<i1, hc>>) = <<Entry(<<i1, hc>>, One)>>
            /\ "hp_to_hc" \in mm_done =>
                 SumVals(RowOf(hp2hc, ik_to_index(i1, hc))) = One

\* Both results computed for a covering sheet whose row holds two weights.
C10_Witness ==
    /\ {"compute_fhc", "hp_to_hc"} \subseteq mm_done
    /\ \E sname \in DOMAIN sheets, i1 \in 0 .. N1 - 1, hc \in 0 .. nhc - 1 :
         /\ DOMAIN sheets = {sname}
         /\ Covers(sheets[sname], i1, hc)
         /\ Cardinality(TheCells(sheets[sname], i1)) = 2
         /\ Len(RowOf(hp2hc, ik_to_index(i1, hc))) = 2
         /\ \A n \in 1 .. 2 : RowOf(hp2hc, ik_to_index(i1, hc))[n].val \notin {Zero, One}

EvenAreas(sheet) == \A n \in 1 .. Len(sheet.exgrid) : sheet.exgrid[n].area % 2 = 0
Halved(ex) == [n \in 1 .. Len(ex) |-> Cell(ex[n].i, ex[n].j, ex[n].area \div 2)]
TwoPasses(sheet) == [sheet EXCEPT !.exgrid = Halved(sheet.exgrid) \o Halved(sheet.exgrid)]

\* C12: feeding a sheet's overlap areas through the accumulators in two passes
\* with the areas halved gives the same fgice and fhc as the single pass with
\* the full areas.
C12_BatchingSameResult ==
    "compute_fhc" \in mm_done =>
        \A sname \in DOMAIN sheets :
            EvenAreas(sheets[sname]) =>
                LET split == compute_fhc([sheets EXCEPT ![sname] = TwoPasses(sheets[sname])])
                IN split.fgice1 = fgice1 /\ split.fhc1h = fhc1h

C12_Witness ==
    /\ "compute_fhc" \in mm_done
    /\ \E sname \in DOMAIN sheets :
         /\ EvenAreas(sheets[sname])
         /\ Len(sheets[sname].exgrid) = 2
         /\ \A n \in 1 .. 2 : sheets[sname].exgrid[n].area = 2
         /\ Len(fhc1h) = 2

\* Ice of height class hc was accumulated for GCM cell i1.
Contributes(i1, hc) ==
    \E sname \in DOMAIN sheets : \E n \in TheCells(sheets[sname], i1) :
        get_hc(sheets[sname].elev2[sheets[sname].exgrid[n].j + 1]) = hc

\* Everything accumulated for GCM cell i1 has area zero.
ZeroIce(i1) ==
    \A sname \in DOMAIN sheets : \A n \in TheCells(sheets[sname], i1) :
        sheets[sname].exgrid[n].area = 0

\* C13: when the accumulated ice area of a GCM cell is zero, compute_fhc still
\* emits the cell's fhc entry, with a NaN weight: the entry is not skipped,
\* zeroed or clamped.
C13_ZeroAreaIsNaN ==
    "compute_fhc" \in mm_done =>
        \A i1 \in 0 .. N1 - 1, hc \in 0 .. nhc - 1 :
            (Contributes(i1, hc) /\ ZeroIce(i1)) =>
                ValuesAt(fhc1h, <<i1, hc>>) = <<Entry(<<i1, hc>>, NaN)>>

\* A zero-area cell next to a cell with ice, so fhc1h holds a NaN and a number.
C13_Witness ==
    /\ "compute_fhc" \in mm_done
    /\ \E i1 \in 0 .. N1 - 1, hc \in 0 .. nhc - 1 : Contributes(i1, hc) /\ ZeroIce(i1)
    /\ \E n \in 1 .. Len(fhc1h) : fhc1h[n].val[2] # 0

\* The raw entries hp_to_hc appends and the areas it accumulates (lines 126-143).
RawEntries == hp_to_hc_sheets(sheets, SheetOrder(sheets), Len(SheetOrder(sheets)))

SharedCoordinate ==
    \E m, n \in 1 .. Len(RawEntries.ret) : m # n /\ RawEntries.ret[m].key = RawEntries.ret[n].key

SumThenDivide == divide_by(sum_duplicates(RawEntries.ret), RawEntries.area1_m_hc)

\* C20 as stated: when a coordinate received more than one raw entry, dividing
\* and then summing duplicates differs from summing duplicates and then dividing.
C20_OrderMatters ==
    ("hp_to_hc" \in mm_done /\ SharedCoordinate) => hp2hc # SumThenDivide

\* C20: hp_to_hc divides every entry by its row's accumulated area and then
\* sums duplicates; the entries of one coordinate share their row's divisor, so
\* the matrix equals the one obtained by summing duplicates first.
C20_OrderImmaterial ==
    "hp_to_hc" \in mm_done => hp2hc = SumThenDivide

C20_Witness ==
    /\ "hp_to_hc" \in mm_done
    /\ SharedCoordinate
    /\ \E n \in 1 .. Len(hp2hc) : hp2hc[n].val \notin {Zero, One, NaN}

SizeMismatch ==
    \/ realized.mask1 # Absent /\ realized.mask1 # N1
    \/ realized.hcmax # Len(hpdefs)

\* C16: on a size mismatch (mask1 present with the wrong extent, or hcmax's
\* extent different from hpdefs.size(), with or without mask1) realize raises
\* its failure and realizes no sheet; when the sizes match it realizes every
\* registered sheet exactly once.
C16_MismatchRaises ==
    realized # NotRealized =>
        IF SizeMismatch
        THEN realized.outcome = "thrown" /\ realized.calls = <<>>
        ELSE /\ realized.outcome = "returned"
             /\ \A sname \in DOMAIN sheets :
                  Len(SelectSeq(realized.calls, LAMBDA c : c = sname)) = 1

\* ---- Properties of make_merged_topoo

Reached(pcs) == topoo.pc \in pcs

\* C14: the errors of merge_topoO and compute_EOpvAOp_merged are collected in
\* one list; the run does not stop at the first of them, every one is
\* reported, the output file is still written, and the exit status is non-zero
\* exactly when the list is not empty.
C14_CollectThenDecide ==
    /\ topoo.errors # <<>> => topoo.status # "icebin_error"
    /\ Reached({"write", "return", "exited"}) /\ topoo.status # "icebin_error" =>
         \A n \in 1 .. Len(topoo.errors) :
             \E m \in 1 .. Len(topoo.stderr) : topoo.stderr[m] = topoo.errors[n]
    /\ topoo.status \in {"0", "-1"} =>
         /\ topoo.written
         /\ topoo.status # "0" <=> topoo.errors # <<>>

\* A finished run that collected an error from each of the two functions.
C14_Witness ==
    /\ topoo.status = "-1"
    /\ topoo.written
    /\ Len(topoo.errors) = 3
    /\ topoo.stderr = topoo.errors

\* The argument the loop is at has a format other than "pism".
AtUnrecognized ==
    /\ topoo.k < Len(topoo.args)
    /\ topoo.args[topoo.k + 1].colon
    /\ topoo.args[topoo.k + 1].stype # "pism"

\* C15: an elevmask argument of an unrecognized format is a collected data
\* error: the run does not end at that argument, and the remaining arguments
\* are processed.
C15_UnrecognizedCollected ==
    AtUnrecognized => topoo.status # "icebin_error"

\* ---- Order of setup_contracts_modele

\* The OUTPUT side has been touched: its contract holds a field, or its
\* transformer has been bound or allocated.
OutputStarted ==
    /\ outcome # "idle"
    /\ \/ size_withunit(contract["OUTPUT"]) > 0
       \/ var_transformer["OUTPUT"].bound # {}
       \/ var_transformer["OUTPUT"].allocated

\* The INPUT side is complete: all its fields added, its transformer bound on
\* the three axes and allocated, and every INPUT recipe statement passed.
InputComplete ==
    /\ \A n \in 1 .. Len(InputFields(coupling_type)) :
          InputFields(coupling_type)[n].a \in NamesOf(contract["INPUT"])
    /\ var_transformer["INPUT"].bound = {"INPUTS", "OUTPUTS", "SCALARS"}
    /\ var_transformer["INPUT"].allocated
    /\ \/ ~ok
       \/ Len(SelectSeq(calls, LAMBDA c : c.io = "INPUT"))
            = Len(InputRecipes(coupling_type, enth_modele_to_pism))

EnthDefined == pc > Len(InputFields(coupling_type)) + 1

InputFrozen ==
    OutputStarted =>
        /\ contract'["INPUT"] = contract["INPUT"]
        /\ var_transformer'["INPUT"] = var_transformer["INPUT"]
        /\ enth_modele_to_pism' = enth_modele_to_pism

\* C17: the INPUT contract's fields are all added and the INPUT transformer is
\* bound, allocated and given its recipes before the OUTPUT contract receives a
\* field and before the OUTPUT transformer is bound or allocated; the enthalpy
\* offset is set before then, and nothing of the INPUT side changes afterwards.
C17_InputBeforeOutput ==
    /\ [](OutputStarted => (InputComplete /\ EnthDefined))
    /\ [][InputFrozen]_vars

C17_Witness ==
    /\ outcome = "returned"
    /\ OutputStarted
    /\ coupling_type = "DIRICHLET_BC"
    /\ enth_modele_to_pism # 0
    /\ \E n \in 1 .. Len(calls) : calls[n].io = "OUTPUT" /\ calls[n].val = (-enth_modele_to_pism) * Scale

\* ---- Properties of the coupling lifecycle

\* A timestep was coupled for sheet s in this step.
Stepped(s) == coupler'[s].timesteps > coupler[s].timesteps

\* C18: each sheet is given its start time exactly once; no timestep is coupled
\* for a sheet before it has its start time and its regridding matrices (READY),
\* and none once it is TORN-DOWN.
C18_LifecycleOrder ==
    /\ [](\A s \in DOMAIN coupler :
            /\ coupler[s].start_times <= 1
            /\ coupler[s].state \in {"START-TIME-SET", "READY", "TORN-DOWN"}
                 => coupler[s].start_times = 1
            /\ coupler[s].timesteps > 0 => (coupler[s].start_times = 1 /\ coupler[s].IvE))
    /\ [][\A s \in DOMAIN coupler :
            /\ Stepped(s) => (coupler[s].state = "READY" /\ coupler[s].IvE)
            /\ coupler[s].state = "TORN-DOWN" => coupler'[s] = coupler[s]]_vars

C18_Witness ==
    \E s, t \in DOMAIN coupler :
        /\ coupler[s].state = "TORN-DOWN" /\ coupler[s].timesteps = MaxTimesteps
        /\ coupler[t].state = "START-TIME-SET"

Range(seq) == {seq[n] : n \in 1 .. Len(seq)}

\* C19: a timestep coupled with do_run = false leaves the ice model's state as
\* it was, and still produces the ice output of that state and carries out the
\* regrid-back, the OUTPUT transform and the accumulation.
C19_NoRunKeepsState ==
    \A s \in DOMAIN coupler :
        (coupler[s].last # NoTimestep /\ ~coupler[s].last.do_run) =>
            /\ coupler[s].last.after = coupler[s].last.before
            /\ coupler[s].ice = coupler[s].last.before
            /\ coupler[s].last.ice_ovalsI = get_elevI(coupler[s].last.before)
            /\ {"regrid_back", "output_transform", "accumulate"}
                 \subseteq Range(coupler[s].last.done)
            /\ coupler[s].accumulated = coupler[s].timesteps

\* A run step followed by a refresh step.
C19_Witness ==
    \E s \in DOMAIN coupler :
        /\ coupler[s].timesteps = 2
        /\ coupler[s].ice = 1
        /\ ~coupler[s].last.do_run
        /\ coupler[s].last.ice_ovalsI = get_elevI(1)

\* C21: the INPUT transformer gives surface_downward_mass_flux = lismb and
\* surface_downward_enthalpy_flux = liseb + enth_modele_to_pism * lismb, for
\* every input: the two enthalpy terms add up on the one output.
C21_InputFormula ==
    eval.io = "INPUT" =>
        /\ eval.out[Ix(contract["INPUT"], MASS_FLUX)]
             = Scale * eval.in[Ix(gcm_outputs, "lismb")]
        /\ eval.out[Ix(contract["INPUT"], ENTHALPY_FLUX)]
             = Scale * eval.in[Ix(gcm_outputs, "liseb")]
               + Scale * enth_modele_to_pism * eval.in[Ix(gcm_outputs, "lismb")]

C21_Witness ==
    /\ eval.io = "INPUT"
    /\ enth_modele_to_pism # 0
    /\ eval.in[Ix(gcm_outputs, "lismb")] = -3
    /\ eval.in[Ix(gcm_outputs, "liseb")] = 10
    /\ eval.out[Ix(contract["INPUT"], ENTHALPY_FLUX)] = Scale * (10 - 3 * enth_modele_to_pism)


HasName(n) == \E i \in 1 .. Len(_ix_to_field) : _ix_to_field[i].name = n

\* C1: every successfully added name has the index of its insertion position;
\* index(n) keeps returning it after later add_field calls, name(index(n)) = n,
\* and no two distinct names share an index.
C1_IndicesStable ==
    \A n \in DOMAIN issued :
        /\ issued[n] + 1 \in 1 .. Len(order)
        /\ order[issued[n] + 1] = n
        /\ \A strict \in BOOLEAN :
              index(ThisContract, n, strict) = [exit |-> FALSE, ret |-> issued[n]]
        /\ issued[n] < size_withunit(ThisContract)
        /\ name(ThisContract, issued[n]) = n
        /\ \A m \in DOMAIN issued : m # n => issued[m] # issued[n]

\* C1 witness: the first name's index is looked up after two later add_field calls.
C1_Witness ==
    /\ Len(order) = 3
    /\ lastop.op = "index"
    /\ lastop.name = order[1]
    /\ ret = RetInt(0)

UniqueNames ==
    \A i, j \in 1 .. Len(_ix_to_field) :
        i # j => _ix_to_field[i].name # _ix_to_field[j].name

DupRejected ==
    (lastop'.op = "add_field" /\ HasName(lastop'.name))
        => (exited' /\ ret' = RetNone /\ cvars' = cvars)

\* C2: add_field with a name already present is rejected with a fatal failure,
\* and in every reachable state each name occurs in at most one field.
C2_DuplicateRejected == []UniqueNames /\ [][DupRejected]_vars

\* C2 witness: a second add_field of a present name ended the process.
C2_Witness ==
    /\ exited
    /\ lastop.op = "add_field"
    /\ HasName(lastop.name)
    /\ Len(_ix_to_field) >= 2

IndexStep ==
    lastop'.op = "index" =>
        /\ cvars' = cvars
        /\ IF HasName(lastop'.name)
           THEN /\ ~exited'
                /\ \E i \in 1 .. Len(_ix_to_field) :
                      _ix_to_field[i].name = lastop'.name /\ ret' = RetInt(i - 1)
           ELSE IF lastop'.strict
                THEN exited' /\ ret' = RetNone
                ELSE ~exited' /\ ret' = RetInt(-1)

\* C3: index(name, strict) returns a present name's index in both modes; for an
\* absent name the strict lookup exits fatally and the non-strict one returns -1;
\* the lookup never modifies the contract.
C3_IndexLookup == [][IndexStep]_vars

\* C3 witness: a non-strict lookup of an absent name in a non-empty contract
\* returned -1.
C3_Witness ==
    /\ lastop.op = "index"
    /\ ~lastop.strict
    /\ ~HasName(lastop.name)
    /\ Len(_ix_to_field) >= 1
    /\ ret = RetInt(-1)
    /\ ~exited

\* C4: in every reachable state of a contract, the fresh empty one included,
\* size_withunit() = size_nounit() + 1.
C4_SizeWithUnit == size_withunit(ThisContract) = size_nounit(ThisContract) + 1


ConstRefReturns ==
    (lastop'.op = "add_field_constref" /\ ~HasName(lastop'.name)) =>
        /\ ~exited'
        /\ ret' = RetInt(Len(_ix_to_field))
        /\ Len(_ix_to_field') = Len(_ix_to_field) + 1
        /\ _ix_to_field'[Len(_ix_to_field')].name = lastop'.name

\* C22: add_field(CoupledField const &) called with a name the contract does not
\* hold returns, after a bounded number of steps, the new field's index, having
\* added exactly one field.
C22_ConstRefTerminates == [][ConstRefReturns]_vars



\* C23: a MatrixMaker written with netcdf_define and read back with
\* read_from_netcdf under the same variable name has mask1 present exactly when
\* the written one had it, with equal contents, equal hpdefs and hcmax, and the
\* same sheet names in the same order, for a non-empty list of sheets.
C23_RoundTrip ==
    ("read_from_netcdf" \in mm_done /\ nc.from.names # <<>>) =>
        /\ arrays.mask1 = nc.from.mask1
        /\ arrays.hpdefs = nc.from.hpdefs
        /\ arrays.hcmax = nc.from.hcmax
        /\ SheetOrder(sheets) = nc.from.names



HeldIndices == {sheets[n].index : n \in DOMAIN sheets}

SameSheets ==
    /\ Cardinality(DOMAIN sheets) = Cardinality(DOMAIN sheets_by_id)
    /\ DOMAIN sheets_by_id \subseteq HeldIndices
    /\ \A a, b \in DOMAIN sheets : sheets[a].index = sheets[b].index => a = b

EmptyNameRejected ==
    ("throw" \in mm_done' /\ "throw" \notin mm_done) =>
        UNCHANGED <<sheets, sheets_by_id, _next_sheet_index>>

\* C24: after any sequence of add_ice_sheet and clear calls, sheets and
\* sheets_by_id have the same number of entries, every key of sheets_by_id is
\* the index of a held sheet, held sheets have pairwise distinct indices, and a
\* call with an empty name is rejected leaving both maps and the next index
\* unchanged.
C24_MapsAgree == []SameSheets /\ [][EmptyNameRejected]_vars



IndexDecomposed ==
    lookup.lindex # <<>> =>
        /\ lookup.lindex[1] \in 1..domain.im
        /\ lookup.lindex[2] \in 1..domain.jm
        /\ lookup.gindex_c = (lookup.lindex[2] - 1) * domain.im + (lookup.lindex[1] - 1)

\* C25: for every global index g in 0..im*jm-1, global_to_local yields the
\* 1-based pair (i, j) with g = (j-1)*im + (i-1); for that pair in_domain is
\* true exactly when j0_f <= j <= j1_f and in_halo exactly when
\* j0h_f <= j <= j1h_f, both depending only on the latitude index j.
C25_LatitudeBand ==
    /\ IndexDecomposed
    /\ \A b \in lookup.in_domain :
         b = (domain.j0_f <= lookup.lindex[2] /\ lookup.lindex[2] <= domain.j1_f)
    /\ \A b \in lookup.in_halo :
         b = (domain.j0h_f <= lookup.lindex[2] /\ lookup.lindex[2] <= domain.j1h_f)


=============================================================================
